---------------------------- MODULE Spec2Model ----------------------------
(***************************************************************************)
(* A model of datamine_exporter: the cell resolver (CellData::to_string),  *)
(* the record builder (Sheet::column_titles / Sheet::json_rows), the       *)
(* cross-sheet enrichment (Datamine::assign_filenames_to_recipes) and the  *)
(* image export of one sheet (JsonSheet::download_images_to_dir).          *)
(*                                                                         *)
(* Strings are sequences of one-character strings, so that the character   *)
(* level code (the image-formula regex, the column-name normalisation, the *)
(* number formatting) is computed and not assumed.  An f64 is modelled by  *)
(* its number of tenths: the integer n stands for the number n/10.         *)
(***************************************************************************)
EXTENDS Integers, Sequences, FiniteSets, TLC

VARIABLES
    cell,           \* SpecCell: the CellData handed to to_string
    cell_result,    \* SpecCell: what to_string returned ("NotCalled" before)
    sheet,          \* SpecSheet: the Sheet handed to json_rows
    sheet_pc,       \* SpecSheet: position inside json_rows
    columns,        \* SpecSheet: the local `columns` of json_rows
    row_idx,        \* SpecSheet: index (1-based, in row_data) of the next row
    rows,           \* SpecSheet: the collected rows
    json_result,    \* SpecSheet: the value json_rows returned
    first_result,   \* SpecSheet: the value the first of two runs returned
    datamine,       \* SpecEnrich: the Datamine, a map from title to JsonSheet
    before,         \* SpecEnrich: the Datamine as it was before the call
    recipes,        \* SpecEnrich: the local `recipes`, the removed sheet
    recipe_idx,     \* SpecEnrich: index of the next recipe of the for loop
    enrich_pc,      \* SpecEnrich: position inside assign_filenames_to_recipes
    enrich_result,  \* SpecEnrich: the value assign_filenames_to_recipes returned
    img_rows,       \* SpecImages: the rows of the JsonSheet
    img_pc,         \* SpecImages: position inside download_images_to_dir
    task,           \* SpecImages: per row, the state of its download future
    tmp_files,      \* SpecImages: the files <filename>.png.tmp of the directory
    png_files,      \* SpecImages: the files <filename>.png of the directory
    progress,       \* SpecImages: the position of total_progress
    img_result,     \* SpecImages: the value download_images_to_dir returned
    spreadsheet,    \* SpecRun: the sheets of the Spreadsheet client.get returns
    with_images,    \* SpecRun: opt.download_images
    run_pc,         \* SpecRun: position inside run
    sheet_idx,      \* SpecRun: index of the next sheet of all_from_spreadsheet
    run_datamine,   \* SpecRun: the local `datamine` of run
    export_idx,     \* SpecRun: index of the next title of the loop of export
    export_files,   \* SpecRun: the files <name>.json of the export directory
    run_errors,     \* SpecRun: the errors the calls of run returned, in order
    run_result,     \* SpecRun: the value run returned
    cache_file,     \* SpecClient: the cache file of the spreadsheet id
    client_pc,      \* SpecClient: position inside get_raw
    fetch_data,     \* SpecClient: the local `data`, the bytes fetched
    requests,       \* SpecClient: the number of network requests made
    fetched,        \* SpecClient: the bytes of the successful fetches, in order
    returned        \* SpecClient: the values the calls of get_raw returned

cell_vars == <<cell, cell_result>>
sheet_vars == <<sheet, sheet_pc, columns, row_idx, rows, json_result, first_result>>
enrich_vars == <<datamine, before, recipes, recipe_idx, enrich_pc, enrich_result>>
img_vars == <<img_rows, img_pc, task, tmp_files, png_files, progress, img_result>>
run_vars == <<spreadsheet, with_images, run_pc, sheet_idx, run_datamine,
              export_idx, export_files, run_errors, run_result>>
client_vars == <<cache_file, client_pc, fetch_data, requests, fetched, returned>>
vars == <<cell, cell_result, sheet, sheet_pc, columns, row_idx, rows,
          json_result, first_result, datamine, before, recipes, recipe_idx,
          enrich_pc, enrich_result, img_rows, img_pc, task, tmp_files,
          png_files, progress, img_result, spreadsheet, with_images, run_pc,
          sheet_idx, run_datamine, export_idx, export_files, run_errors,
          run_result, cache_file, client_pc, fetch_data, requests, fetched, returned>>

(***************************************************************************)
(* Characters and strings                                                  *)
(***************************************************************************)
UpperCase == <<"A","B","C","D","E","F","G","H","I","J","K","L","M",
               "N","O","P","Q","R","S","T","U","V","W","X","Y","Z">>
LowerCase == <<"a","b","c","d","e","f","g","h","i","j","k","l","m",
               "n","o","p","q","r","s","t","u","v","w","x","y","z">>

\* char::to_ascii_lowercase
to_ascii_lowercase(c) ==
    IF \E k \in 1..26 : UpperCase[k] = c
    THEN LowerCase[CHOOSE k \in 1..26 : UpperCase[k] = c]
    ELSE c

Digits == <<"0","1","2","3","4","5","6","7","8","9">>

RECURSIVE NatToString(_)
\* the decimal digits of a natural number, most significant first
NatToString(n) ==
    IF n < 10 THEN <<Digits[n + 1]>>
    ELSE NatToString(n \div 10) \o <<Digits[(n % 10) + 1]>>

\* <f64 as Display>::to_string for the number n/10: a sign, the integer
\* part, and a fraction only when it is not zero ("3", "-1.5", "0.5")
f64_to_string(n) ==
    LET a == IF n < 0 THEN -n ELSE n
        sign == IF n < 0 THEN <<"-">> ELSE <<>>
        frac == IF a % 10 = 0 THEN <<>> ELSE <<".", Digits[(a % 10) + 1]>>
    IN sign \o NatToString(a \div 10) \o frac

(***************************************************************************)
(* ExtendedValue, CellData                                                 *)
(***************************************************************************)
Absent == [t |-> "Absent"]                     \* Option::None of a slot
EmptyValue == [t |-> "Empty"]                  \* ExtendedValue::Empty {}
NumberValue(n) == [t |-> "Number", number_value |-> n]
StringValue(s) == [t |-> "String", string_value |-> s]
BoolValue(b) == [t |-> "Bool", bool_value |-> b]
FormulaValue(s) == [t |-> "Formula", formula_value |-> s]

CellData(user, effective) ==
    [user_entered_value |-> user, effective_value |-> effective]

\* Option<Cow<str>> returned by to_string, or the panic that ends the process
None == [t |-> "None"]
Some(s) == [t |-> "Some", value |-> s]
Panic == [t |-> "Panic"]

\* anyhow::Result: Ok(value), or Err with the context message that names it
Ok(v) == [t |-> "Ok", value |-> v]
Err(kind) == [t |-> "Err", kind |-> kind]

\* IMAGE_FORMULA_RE = (?i)=IMAGE\("(.*)"\) : the literal prefix, matched
\* without regard to letter case
ImagePrefix == <<"=", "I", "M", "A", "G", "E", "(", "\"">>

\* a faulty variant of PrefixAt: the (?i) flag is lost, the keyword must be upper case
PrefixAt_case_sensitive(s, i) ==
    /\ i + Len(ImagePrefix) - 1 <= Len(s)
    /\ \A k \in 1..Len(ImagePrefix) : s[i + k - 1] = ImagePrefix[k]

PrefixAt(s, i) ==
    /\ i + Len(ImagePrefix) - 1 <= Len(s)
    /\ \A k \in 1..Len(ImagePrefix) :
          to_ascii_lowercase(s[i + k - 1]) = to_ascii_lowercase(ImagePrefix[k])

\* the positions j at which the closing  ")  can match when the prefix matched
\* at i: `.` matches every character but the line feed
ClosingAt(s, i) ==
    { j \in (i + Len(ImagePrefix))..(Len(s) - 1) :
        /\ s[j] = "\"" /\ s[j + 1] = ")"
        /\ \A k \in (i + Len(ImagePrefix))..(j - 1) : s[k] # "\n" }

MatchAt(s, i) == PrefixAt(s, i) /\ ClosingAt(s, i) # {}

Max(S) == CHOOSE x \in S : \A y \in S : y <= x
Min(S) == CHOOSE x \in S : \A y \in S : x <= y

\* Regex::captures(value) then caps.get(1): the leftmost match, `.*` greedy;
\* None when the pattern matches nowhere
IMAGE_FORMULA_RE(s) ==
    LET starts == { i \in 1..Len(s) : MatchAt(s, i) }
    IN IF starts = {} THEN None
       ELSE LET i == Min(starts)
                j == Max(ClosingAt(s, i))
            IN Some(SubSeq(s, i + Len(ImagePrefix), j - 1))

\* a faulty variant of to_string: the user-entered slot is looked at first
to_string_user_first(c) ==
    LET e == c.effective_value
        u == c.user_entered_value
    IN IF u.t = "Formula"
       THEN (IF IMAGE_FORMULA_RE(u.formula_value) = None THEN Panic
             ELSE IMAGE_FORMULA_RE(u.formula_value))
       ELSE IF e.t = "String" THEN Some(e.string_value)
       ELSE IF e.t = "Number" THEN Some(f64_to_string(e.number_value))
       ELSE IF e.t \notin {"Absent", "Empty"} THEN Panic
       ELSE IF u.t \in {"Absent", "Empty"} THEN None
       ELSE Panic

\* a faulty variant of to_string: an Empty user-entered value is not handled and
\* reaches the catch-all arm
to_string_no_empty_arm(c) ==
    LET e == c.effective_value
        u == c.user_entered_value
    IN IF e.t = "String" THEN Some(e.string_value)
       ELSE IF e.t = "Number" THEN Some(f64_to_string(e.number_value))
       ELSE IF e.t \notin {"Absent", "Empty"} THEN Panic
       ELSE IF u.t = "Absent" THEN None
       ELSE IF u.t = "Formula"
            THEN (IF IMAGE_FORMULA_RE(u.formula_value) = None THEN Panic
                  ELSE IMAGE_FORMULA_RE(u.formula_value))
       ELSE Panic

\* CellData::to_string
to_string(c) ==
    LET e == c.effective_value
        u == c.user_entered_value
    IN IF e.t = "String" THEN Some(e.string_value)
       ELSE IF e.t = "Number" THEN Some(f64_to_string(e.number_value))
       ELSE IF e.t \notin {"Absent", "Empty"} THEN Panic   \* unimplemented!
       ELSE IF u.t = "Absent" THEN None
       ELSE IF u.t = "Formula"
            THEN (IF IMAGE_FORMULA_RE(u.formula_value) = None
                  THEN Panic                               \* expect(..)
                  ELSE IMAGE_FORMULA_RE(u.formula_value))
       ELSE IF u.t = "Empty" THEN None
       ELSE Panic                                          \* unimplemented!


(***************************************************************************)
(* Inputs of the cell resolver                                             *)
(***************************************************************************)
Url1 == <<"h", "t", "t", "p", ":", "/", "/", "x">>
Url2 == <<"a", "\"", ")", "b">>          \* a url that itself holds  ")
UrlLF == <<"a", "\n", "b">>              \* a url broken over two lines
Urls == {Url1, Url2}

KeywordCases == { <<"I","M","A","G","E">>, <<"i","m","a","g","e">>,
                  <<"I","m","a","G","e">> }

ImageFormula(kw, u) == <<"=">> \o kw \o <<"(", "\"">> \o u \o <<"\"", ")">>

\* the formula as part of a longer one: the pattern is not anchored
Embedded(f) == <<"=", "T", "(">> \o f \o <<")">>

ImageFormulas ==
    { ImageFormula(kw, u) : kw \in KeywordCases, u \in Urls }
    \cup { Embedded(ImageFormula(kw, Url1)) : kw \in KeywordCases }

\* formulas the pattern does not match: another function, a second
\* argument after the url, a url with a line feed in it
OtherFormulas ==
    { <<"=", "S", "U", "M", "(", "1", ")">>,
      <<"=", "I", "M", "A", "G", "E", "(", "\"", "x", "\"", ",", "1", ")">>,
      ImageFormula(<<"I","M","A","G","E">>, UrlLF) }

Apple == <<"A", "p", "p", "l", "e">>
Numbers == {0, 30, -15, 1205, -7}       \* 0, 3, -1.5, 120.5, -0.7
Strings == { <<>>, Apple }

ExtendedValues ==
    { NumberValue(n) : n \in Numbers } \cup { StringValue(s) : s \in Strings }
    \cup { BoolValue(b) : b \in BOOLEAN }
    \cup { FormulaValue(f) : f \in ImageFormulas \cup OtherFormulas }
    \cup { EmptyValue }

OptionalValues == ExtendedValues \cup { Absent }

Cells == { CellData(u, e) : u \in OptionalValues, e \in OptionalValues }

NotCalled == [t |-> "NotCalled"]

(***************************************************************************)
(* SpecCell: to_string applied to one cell                                 *)
(***************************************************************************)
SheetIdle ==
    /\ sheet = [data |-> <<>>]
    /\ sheet_pc = "idle"
    /\ columns = <<>>
    /\ row_idx = 0
    /\ rows = <<>>
    /\ json_result = NotCalled
    /\ first_result = NotCalled

EnrichIdle ==
    /\ datamine = <<>>
    /\ before = <<>>
    /\ recipes = <<>>
    /\ recipe_idx = 0
    /\ enrich_pc = "idle"
    /\ enrich_result = NotCalled

ImagesIdle ==
    /\ img_rows = <<>>
    /\ img_pc = "idle"
    /\ task = <<>>
    /\ tmp_files = <<>>
    /\ png_files = <<>>
    /\ progress = 0
    /\ img_result = NotCalled

RunIdle ==
    /\ spreadsheet = <<>>
    /\ with_images = FALSE
    /\ run_pc = "idle"
    /\ sheet_idx = 0
    /\ run_datamine = <<>>
    /\ export_idx = 0
    /\ export_files = {}
    /\ run_errors = <<>>
    /\ run_result = NotCalled

ClientIdle ==
    /\ cache_file = None
    /\ client_pc = "idle"
    /\ fetch_data = <<>>
    /\ requests = 0
    /\ fetched = <<>>
    /\ returned = <<>>

InitCell ==
    /\ cell \in Cells
    /\ cell_result = NotCalled
    /\ SheetIdle
    /\ EnrichIdle
    /\ ImagesIdle
    /\ RunIdle
    /\ ClientIdle

CallToString ==
    /\ cell_result = NotCalled
    /\ cell_result' = to_string(cell)
    /\ UNCHANGED <<cell, sheet_vars, enrich_vars, img_vars,
                   run_vars, client_vars>>

NextCell == CallToString

SpecCell == InitCell /\ [][NextCell]_vars


(***************************************************************************)
(* Sheet, GridData, RowData; serde_json values and maps                    *)
(***************************************************************************)
RowData(values) == [values |-> values]
GridData(row_data) == [row_data |-> row_data]
Sheet(data) == [data |-> data]

Null == [t |-> "Null"]                          \* json::Value::Null
JsonString(s) == [t |-> "String", value |-> s]  \* json::Value::String

EmptyMap == [k \in {} |-> Null]                 \* json::Map::new()
\* a faulty variant of Insert: the map is replaced by one that holds the new entry only
Insert_fresh(map, key, value) == (key :> value)

\* json::Map::insert: a value already under the key is replaced
Insert(map, key, value) == (key :> value) @@ map

\* Sheet::normalize_column_name
normalize_column_name(column) ==
    [i \in 1..Len(column) |->
        IF column[i] = " " THEN "_" ELSE to_ascii_lowercase(column[i])]

RECURSIVE CollectTitles(_, _)
\* the map(..).collect::<Result<Vec<String>>>() of column_titles over the
\* cells from position i on: the first cell without a string ends it
CollectTitles(values, i) ==
    IF i > Len(values) THEN Ok(<<>>)
    ELSE LET r == to_string(values[i])
         IN IF r.t = "Panic" THEN Panic
            ELSE IF r.t = "None" THEN Err("Empty column title")
            ELSE LET rest == CollectTitles(values, i + 1)
                 IN IF rest.t = "Ok"
                    THEN Ok(<<normalize_column_name(r.value)>> \o rest.value)
                    ELSE rest

\* Sheet::column_titles
column_titles(sh) ==
    IF sh.data = <<>> THEN Err("No grid data")
    ELSE IF sh.data[1].row_data = <<>> THEN Err("No column titles")
    ELSE CollectTitles(sh.data[1].row_data[1].values, 1)

RECURSIVE InsertCells_drops_extra(_, _, _, _)
\* a faulty variant of InsertCells: the cells beyond the last column are left out
InsertCells_drops_extra(map, cols, values, i) ==
    IF i > Len(values) \/ i > Len(cols) THEN Ok(map)
    ELSE LET r == to_string(values[i])
             value == IF r.t = "Some" THEN JsonString(r.value) ELSE Null
         IN IF r.t = "Panic" THEN Panic
            ELSE InsertCells_drops_extra(Insert(map, cols[i], value), cols, values, i + 1)

RECURSIVE InsertCells(_, _, _, _)
\* the for loop of json_rows over the cells of one row from position i on
InsertCells(map, cols, values, i) ==
    IF i > Len(values) THEN Ok(map)
    ELSE LET key == IF i <= Len(cols) THEN cols[i] ELSE <<>>
             r == to_string(values[i])
             value == IF r.t = "Some" THEN JsonString(r.value) ELSE Null
         IN IF r.t = "Panic" THEN Panic
            ELSE InsertCells(Insert(map, key, value), cols, values, i + 1)

\* the closure of .map(|row| ..) in json_rows: Ok(map), or the panic of a cell
RowMap(cols, row) == InsertCells(EmptyMap, cols, row.values, 1)

\* a faulty variant of KeepRow: a row is kept when it has any key at all
KeepRow_any_key(map) == DOMAIN map # {}

\* the closure of .filter(..) in json_rows: "only keep rows with data"
KeepRow(map) == \E k \in DOMAIN map : map[k] # Null

(***************************************************************************)
(* Inputs of the record builder                                            *)
(***************************************************************************)
MaxCells == 2        \* most cells in a data row
MaxDataRows == 2     \* most rows after the header row

SeqsUpTo(S, n) == UNION { [1..k -> S] : k \in 0..n }

Name == <<"N", "a", "m", "e">>
ItemCount == <<"I", "t", "e", "m", " ", "C", "o", "u", "n", "t">>

StringCell(s) == CellData(StringValue(s), StringValue(s))
NumberCell(n) == CellData(NumberValue(n), NumberValue(n))
EmptyCell == CellData(Absent, Absent)
BoolCell == CellData(BoolValue(TRUE), BoolValue(TRUE))

\* header rows: no column, one, two, the same title twice, a title that is
\* the empty string, a blank title, an unsupported title after a good one and
\* after a blank one
Headers ==
    { <<>>, <<StringCell(Name)>>, <<StringCell(Name), StringCell(ItemCount)>>,
      <<StringCell(Name), StringCell(Name)>>, <<StringCell(<<>>)>>, <<EmptyCell>>,
      <<StringCell(Name), BoolCell>>, <<EmptyCell, BoolCell>> }

\* data rows: every row of at most MaxCells cells that hold a number or
\* nothing, and two rows with a cell to_string does not support
DataCells == { NumberCell(30), EmptyCell }
DataRows ==
    { RowData(v) : v \in SeqsUpTo(DataCells, MaxCells) }
    \cup { RowData(<<BoolCell>>), RowData(<<NumberCell(30), BoolCell>>) }

Sheets ==
    { Sheet(<<>>), Sheet(<<GridData(<<>>)>>) }
    \cup { Sheet(<<GridData(<<RowData(h)>> \o rs)>>) :
              h \in Headers, rs \in SeqsUpTo(DataRows, MaxDataRows) }

(***************************************************************************)
(* SpecSheet: Sheet::json_rows, one step per iterator item, called twice   *)
(***************************************************************************)
CellIdle ==
    /\ cell = EmptyCell
    /\ cell_result = NotCalled

InitSheet ==
    /\ sheet \in Sheets
    /\ sheet_pc = "start"
    /\ columns = <<>>
    /\ row_idx = 0
    /\ rows = <<>>
    /\ json_result = NotCalled
    /\ first_result = NotCalled
    /\ CellIdle
    /\ EnrichIdle
    /\ ImagesIdle
    /\ RunIdle
    /\ ClientIdle

\* let columns = self.column_titles()?;
ColumnTitles ==
    /\ sheet_pc = "start"
    /\ LET r == column_titles(sheet)
       IN IF r.t = "Ok"
          THEN /\ columns' = r.value
               /\ row_idx' = 2                  \* .skip(1)
               /\ sheet_pc' = "rows"
               /\ UNCHANGED json_result
          ELSE /\ json_result' = r              \* the ? returns, or the panic
               /\ sheet_pc' = "done"
               /\ UNCHANGED <<columns, row_idx>>
    /\ UNCHANGED <<sheet, rows, first_result, cell_vars, enrich_vars, img_vars,
                   run_vars, client_vars>>

\* one item of row_data.iter().skip(1).map(..).filter(..).collect()
JsonRow ==
    /\ sheet_pc = "rows"
    /\ row_idx <= Len(sheet.data[1].row_data)
    /\ LET map == RowMap(columns, sheet.data[1].row_data[row_idx])
       IN IF map.t = "Panic"
          THEN /\ json_result' = Panic
               /\ sheet_pc' = "done"
               /\ UNCHANGED <<rows, row_idx>>
          ELSE /\ rows' = IF KeepRow(map.value) THEN Append(rows, map.value)
                          ELSE rows
               /\ row_idx' = row_idx + 1
               /\ UNCHANGED <<json_result, sheet_pc>>
    /\ UNCHANGED <<sheet, columns, first_result, cell_vars, enrich_vars, img_vars,
                   run_vars, client_vars>>

\* Ok(rows)
JsonRowsReturn ==
    /\ sheet_pc = "rows"
    /\ row_idx > Len(sheet.data[1].row_data)
    /\ json_result' = Ok(rows)
    /\ sheet_pc' = "done"
    /\ UNCHANGED <<sheet, columns, row_idx, rows, first_result, cell_vars, enrich_vars, img_vars,
                   run_vars, client_vars>>

\* json_rows is called a second time on the same sheet
JsonRowsAgain ==
    /\ sheet_pc = "done"
    /\ first_result = NotCalled
    /\ json_result # Panic
    /\ first_result' = json_result
    /\ json_result' = NotCalled
    /\ sheet_pc' = "start"
    /\ columns' = <<>>
    /\ row_idx' = 0
    /\ rows' = <<>>
    /\ UNCHANGED <<sheet, cell_vars, enrich_vars, img_vars,
                   run_vars, client_vars>>

NextSheet == ColumnTitles \/ JsonRow \/ JsonRowsReturn \/ JsonRowsAgain

SpecSheet == InitSheet /\ [][NextSheet]_vars

(***************************************************************************)
(* Datamine, JsonSheet, Row                                                *)
(***************************************************************************)
JsonSheet(title, sheet_rows) == [title |-> title, rows |-> sheet_rows]
JsonArray(items) == [t |-> "Array", items |-> items]   \* json::Value::Array

Recipes == <<"R", "e", "c", "i", "p", "e", "s">>
NameKey == <<"n", "a", "m", "e">>
CategoryKey == <<"c", "a", "t", "e", "g", "o", "r", "y">>
FilenameKey == <<"f", "i", "l", "e", "n", "a", "m", "e">>
FilenamesKey == <<"f", "i", "l", "e", "n", "a", "m", "e", "s">>

\* BTreeMap::remove, BTreeMap::insert
Remove(map, key) == [k \in DOMAIN map \ {key} |-> map[k]]

\* row.get(key)?.as_str()? with the two context messages of the source
GetStr(row, key, missing, not_a_string) ==
    IF key \notin DOMAIN row THEN Err(missing)
    ELSE IF row[key].t # "String" THEN Err(not_a_string)
    ELSE Ok(row[key].value)

RECURSIVE CollectFilenames(_, _, _, _)
\* the loop `for item in &items.rows` from item i on, filenames collected so far
CollectFilenames(items, recipe_name, i, filenames) ==
    IF i > Len(items) THEN Ok(filenames)
    ELSE LET item_name == GetStr(items[i], NameKey,
                                 "Failed to get name field for an item",
                                 "Item name is not a string")
             filename == GetStr(items[i], FilenameKey,
                                "Failed to get filename field for an item",
                                "Item filename is not a string")
         IN IF item_name.t = "Err" THEN item_name
            ELSE IF recipe_name # item_name.value
                 THEN CollectFilenames(items, recipe_name, i + 1, filenames)
            ELSE IF filename.t = "Err" THEN filename
            ELSE CollectFilenames(items, recipe_name, i + 1,
                                  Append(filenames, JsonString(filename.value)))

\* a faulty variant of AssignFilenames: the scan stops at the first matching item
AssignFilenames_first_match(dm, recipe) ==
    LET category == GetStr(recipe, CategoryKey,
                           "Failed to get category field for a recipe",
                           "Category is not a string")
        recipe_name == GetStr(recipe, NameKey,
                              "Failed to get name field for a recipe",
                              "Recipe name is not a string")
    IN IF category.t = "Err" THEN category
       ELSE IF recipe_name.t = "Err" THEN recipe_name
       ELSE IF category.value \notin DOMAIN dm THEN Ok(recipe)
       ELSE LET items == dm[category.value].rows
                hits == { i \in 1..Len(items) :
                            /\ NameKey \in DOMAIN items[i]
                            /\ items[i][NameKey] = JsonString(recipe_name.value) }
                upto == IF hits = {} THEN Len(items) ELSE Min(hits)
                filenames == CollectFilenames(SubSeq(items, 1, upto),
                                              recipe_name.value, 1, <<>>)
            IN IF filenames.t = "Err" THEN filenames
               ELSE Ok(Insert(recipe, FilenamesKey, JsonArray(filenames.value)))

\* a faulty variant of AssignFilenames: a missing category sheet is an error
AssignFilenames_strict(dm, recipe) ==
    LET category == GetStr(recipe, CategoryKey,
                           "Failed to get category field for a recipe",
                           "Category is not a string")
        recipe_name == GetStr(recipe, NameKey,
                              "Failed to get name field for a recipe",
                              "Recipe name is not a string")
    IN IF category.t = "Err" THEN category
       ELSE IF recipe_name.t = "Err" THEN recipe_name
       ELSE IF category.value \notin DOMAIN dm THEN Err("Failed to find category")
       ELSE LET filenames == CollectFilenames(dm[category.value].rows,
                                              recipe_name.value, 1, <<>>)
            IN IF filenames.t = "Err" THEN filenames
               ELSE Ok(Insert(recipe, FilenamesKey, JsonArray(filenames.value)))

\* the body of `for recipe in &mut recipes.rows`, run against the datamine
\* the Recipes sheet was removed from: Err(..) when a ? returns, else Ok of
\* the recipe as the body leaves it
AssignFilenames(dm, recipe) ==
    LET category == GetStr(recipe, CategoryKey,
                           "Failed to get category field for a recipe",
                           "Category is not a string")
        recipe_name == GetStr(recipe, NameKey,
                              "Failed to get name field for a recipe",
                              "Recipe name is not a string")
    IN IF category.t = "Err" THEN category
       ELSE IF recipe_name.t = "Err" THEN recipe_name
       ELSE IF category.value \notin DOMAIN dm THEN Ok(recipe)  \* warning, continue
       ELSE LET filenames == CollectFilenames(dm[category.value].rows,
                                              recipe_name.value, 1, <<>>)
            IN IF filenames.t = "Err" THEN filenames
               ELSE Ok(Insert(recipe, FilenamesKey, JsonArray(filenames.value)))

(***************************************************************************)
(* Inputs of the enrichment                                                *)
(***************************************************************************)
MaxRecipes == 2      \* most rows of the Recipes sheet
MaxItems == 2        \* most rows of the Food sheet

Food == <<"F", "o", "o", "d">>
Fish == <<"F", "i", "s", "h">>
Tools == <<"T", "o", "o", "l", "s">>            \* never a sheet of the datamine
FishPie == <<"F", "i", "s", "h", " ", "P", "i", "e">>
Soup == <<"S", "o", "u", "p">>
FishpieFile == <<"f", "i", "s", "h", "p", "i", "e">>
FishpieAltFile == <<"f", "i", "s", "h", "p", "i", "e", "_", "a", "l", "t">>
SoupFile == <<"s", "o", "u", "p">>
CarpFile == <<"c", "a", "r", "p">>

Recipe(name, category) ==
    (NameKey :> JsonString(name)) @@ (CategoryKey :> JsonString(category))
Item(name, filename) ==
    (NameKey :> JsonString(name)) @@ (FilenameKey :> JsonString(filename))

\* recipes the loop body accepts: two names, a category that is a sheet,
\* another one, one that is no sheet, the Recipes sheet itself, and a recipe
\* of a sheet that has a column titled Filenames
GoodRecipes ==
    { Recipe(FishPie, Food), Recipe(Soup, Food), Recipe(FishPie, Fish),
      Recipe(FishPie, Tools), Recipe(FishPie, Recipes),
      (FilenamesKey :> JsonString(SoupFile)) @@ Recipe(FishPie, Food) }
\* recipes without a string category or a string name
BadRecipes ==
    { (NameKey :> JsonString(FishPie)),
      (NameKey :> JsonString(FishPie)) @@ (CategoryKey :> Null),
      (CategoryKey :> JsonString(Food)),
      (NameKey :> Null) @@ (CategoryKey :> JsonString(Food)) }

GoodItems ==
    { Item(FishPie, FishpieFile), Item(FishPie, FishpieAltFile), Item(Soup, SoupFile) }
\* items without a string name or a string filename
BadItems ==
    { (NameKey :> JsonString(FishPie)),
      (NameKey :> JsonString(FishPie)) @@ (FilenameKey :> Null),
      (FilenameKey :> JsonString(SoupFile)),
      (NameKey :> Null) @@ (FilenameKey :> JsonString(SoupFile)) }

\* every list of good rows up to the bound, and a bad row alone, after and
\* before a good one
RowLists(good, bad, first, n) ==
    SeqsUpTo(good, n)
    \cup { <<b>> : b \in bad } \cup { <<first, b>> : b \in bad }
    \cup { <<b, first>> : b \in bad }

RecipeLists == RowLists(GoodRecipes, BadRecipes, Recipe(FishPie, Food), MaxRecipes)
ItemLists == RowLists(GoodItems, BadItems, Item(FishPie, FishpieFile), MaxItems)

FishSheet == JsonSheet(Fish, <<Item(FishPie, CarpFile), Item(Soup, SoupFile)>>)

\* the datamine always has the Fish sheet; Recipes and Food may be missing
Datamines ==
    { (Fish :> FishSheet) @@ r @@ f :
        r \in { <<>> } \cup { (Recipes :> JsonSheet(Recipes, l)) : l \in RecipeLists },
        f \in { <<>> } \cup { (Food :> JsonSheet(Food, l)) : l \in ItemLists } }

(***************************************************************************)
(* SpecEnrich: Datamine::assign_filenames_to_recipes, one step per recipe  *)
(***************************************************************************)
InitEnrich ==
    /\ datamine \in Datamines
    /\ before = datamine
    /\ recipes = <<>>
    /\ recipe_idx = 0
    /\ enrich_pc = "start"
    /\ enrich_result = NotCalled
    /\ CellIdle
    /\ SheetIdle
    /\ ImagesIdle
    /\ RunIdle
    /\ ClientIdle

\* a faulty variant of RemoveRecipes: the sheet is read and stays in the datamine
RemoveRecipes_keeps_sheet ==
    /\ enrich_pc = "start"
    /\ IF Recipes \in DOMAIN datamine
       THEN /\ recipes' = datamine[Recipes]
            /\ recipe_idx' = 1
            /\ enrich_pc' = "loop"
            /\ UNCHANGED <<datamine, enrich_result>>
       ELSE /\ enrich_result' = Err("Failed to find recipes")
            /\ enrich_pc' = "done"
            /\ UNCHANGED <<datamine, recipes, recipe_idx>>
    /\ UNCHANGED <<before, cell_vars, sheet_vars, img_vars, run_vars, client_vars>>

\* let mut recipes = self.remove("Recipes").context("Failed to find recipes")?;
RemoveRecipes ==
    /\ enrich_pc = "start"
    /\ IF Recipes \in DOMAIN datamine
       THEN /\ recipes' = datamine[Recipes]
            /\ datamine' = Remove(datamine, Recipes)
            /\ recipe_idx' = 1
            /\ enrich_pc' = "loop"
            /\ UNCHANGED enrich_result
       ELSE /\ enrich_result' = Err("Failed to find recipes")
            /\ enrich_pc' = "done"
            /\ UNCHANGED <<datamine, recipes, recipe_idx>>
    /\ UNCHANGED <<before, cell_vars, sheet_vars, img_vars,
                   run_vars, client_vars>>

\* one iteration of `for recipe in &mut recipes.rows`
AssignRecipe ==
    /\ enrich_pc = "loop"
    /\ recipe_idx <= Len(recipes.rows)
    /\ LET r == AssignFilenames(datamine, recipes.rows[recipe_idx])
       IN IF r.t = "Err"
          THEN /\ enrich_result' = r
               /\ enrich_pc' = "done"
               /\ UNCHANGED <<recipes, recipe_idx>>
          ELSE /\ recipes' = [recipes EXCEPT !.rows[recipe_idx] = r.value]
               /\ recipe_idx' = recipe_idx + 1
               /\ UNCHANGED <<enrich_result, enrich_pc>>
    /\ UNCHANGED <<datamine, before, cell_vars, sheet_vars, img_vars,
                   run_vars, client_vars>>

\* self.insert("Recipes".into(), recipes); Ok(())
InsertRecipes ==
    /\ enrich_pc = "loop"
    /\ recipe_idx > Len(recipes.rows)
    /\ datamine' = (Recipes :> recipes) @@ datamine
    /\ enrich_result' = Ok(<<>>)
    /\ enrich_pc' = "done"
    /\ UNCHANGED <<before, recipes, recipe_idx, cell_vars, sheet_vars, img_vars,
                   run_vars, client_vars>>

NextEnrich == RemoveRecipes \/ AssignRecipe \/ InsertRecipes

SpecEnrich == InitEnrich /\ [][NextEnrich]_vars

(***************************************************************************)
(* Image export of one sheet                                               *)
(***************************************************************************)
ConcurrencyLimit == 10      \* try_for_each_concurrent(10, ..)
MaxImageRows == 3           \* most rows of the sheet

ImageKey == <<"i", "m", "a", "g", "e">>
FileA == <<"a">>
FileB == <<"b">>

ImageRow(filename) ==
    (ImageKey :> JsonString(Url1)) @@ (FilenameKey :> JsonString(filename))
\* rows with an image, under two file names, and a row whose image is null
ImageRows == { ImageRow(FileA), ImageRow(FileB),
               (ImageKey :> Null) @@ (FilenameKey :> JsonString(FileA)) }
\* a row without the image key
NoImageKeyRow == (FilenameKey :> JsonString(FileA))

ImageSheets ==
    SeqsUpTo(ImageRows, MaxImageRows)
    \cup { <<NoImageKeyRow>>, <<ImageRow(FileA), NoImageKeyRow>> }

\* a file: the row whose download wrote it (0: it was there before the
\* export) and whether all its bytes are written
File(by, complete) == [by |-> by, complete |-> complete]

\* Image::from_row
Image_from_row(row) ==
    IF /\ ImageKey \in DOMAIN row /\ row[ImageKey].t = "String"
       /\ FilenameKey \in DOMAIN row /\ row[FilenameKey].t = "String"
    THEN Some([url |-> row[ImageKey].value, filename |-> row[FilenameKey].value])
    ELSE None

FilenameOfRow(i) == Image_from_row(img_rows[i]).value.filename

\* the futures try_for_each_concurrent holds and polls
InFlightStates == {"download", "write", "writing", "rename"}
InFlight == { i \in DOMAIN task : task[i] \in InFlightStates }

\* the first Err a future returns ends try_for_each_concurrent: the futures
\* still in flight are dropped, the rest of the stream is never started.  A
\* fs::write that already runs on the blocking pool is not stopped by the drop.
DropOthers(i) ==
    [j \in DOMAIN task |->
        IF j = i THEN "failed"
        ELSE IF task[j] = "writing" THEN "dropped_writing"
        ELSE IF task[j] \in InFlightStates THEN "dropped"
        ELSE task[j]]

\* the future of row i returns Err(..)
TaskFails(i) ==
    /\ task' = DropOthers(i)
    /\ progress' = progress + 1
    /\ img_result' = Err("Failed to download image")
    /\ img_pc' = "done"

(***************************************************************************)
(* SpecImages: JsonSheet::download_images_to_dir                           *)
(***************************************************************************)
InitImages ==
    /\ img_rows \in ImageSheets
    /\ img_pc = "start"
    /\ task = [i \in 1..Len(img_rows) |-> "pending"]
    /\ tmp_files = <<>>
    /\ png_files \in { <<>>, (FileA :> File(0, TRUE)) }
    /\ progress = 0
    /\ img_result = NotCalled
    /\ CellIdle
    /\ SheetIdle
    /\ EnrichIdle
    /\ RunIdle
    /\ ClientIdle

\* required_fields_exist, and the early return when a row lacks a key
CheckRequiredFields ==
    /\ img_pc = "start"
    /\ IF \A i \in 1..Len(img_rows) :
             ImageKey \in DOMAIN img_rows[i] /\ FilenameKey \in DOMAIN img_rows[i]
       THEN /\ img_pc' = "stream"
            /\ UNCHANGED img_result
       ELSE /\ img_pc' = "done"
            /\ img_result' = Ok(<<>>)
    /\ UNCHANGED <<img_rows, task, tmp_files, png_files, progress,
                   cell_vars, sheet_vars, enrich_vars, run_vars, client_vars>>

\* a faulty variant of StartTask: the stream is drained without regard to the
\* number of futures in flight
StartTask_unbounded(i) ==
    /\ img_pc = "stream"
    /\ task[i] = "pending"
    /\ \A j \in 1..(i - 1) : task[j] # "pending"
    /\ IF \/ Image_from_row(img_rows[i]) = None
          \/ FilenameOfRow(i) \in DOMAIN png_files
       THEN /\ task' = [task EXCEPT ![i] = "done"]
            /\ progress' = progress + 1
       ELSE /\ task' = [task EXCEPT ![i] = "download"]
            /\ UNCHANGED progress
    /\ UNCHANGED <<img_rows, img_pc, tmp_files, png_files, img_result,
                   cell_vars, sheet_vars, enrich_vars, run_vars, client_vars>>

\* the stream hands out the next row and its future runs up to the request:
\* no image in the row, or the file is there already, and it is done
StartTask(i) ==
    /\ img_pc = "stream"
    /\ task[i] = "pending"
    /\ \A j \in 1..(i - 1) : task[j] # "pending"
    /\ Cardinality(InFlight) < ConcurrencyLimit
    /\ IF \/ Image_from_row(img_rows[i]) = None
          \/ FilenameOfRow(i) \in DOMAIN png_files
       THEN /\ task' = [task EXCEPT ![i] = "done"]
            /\ progress' = progress + 1
       ELSE /\ task' = [task EXCEPT ![i] = "download"]
            /\ UNCHANGED progress
    /\ UNCHANGED <<img_rows, img_pc, tmp_files, png_files, img_result,
                   cell_vars, sheet_vars, enrich_vars, run_vars, client_vars>>

\* Image::download returns the bytes
DownloadOk(i) ==
    /\ img_pc = "stream"
    /\ task[i] = "download"
    /\ task' = [task EXCEPT ![i] = "write"]
    /\ UNCHANGED <<img_rows, img_pc, tmp_files, png_files, progress, img_result,
                   cell_vars, sheet_vars, enrich_vars, run_vars, client_vars>>

\* Image::download returns an error
DownloadFails(i) ==
    /\ img_pc = "stream"
    /\ task[i] = "download"
    /\ TaskFails(i)
    /\ UNCHANGED <<img_rows, tmp_files, png_files, cell_vars, sheet_vars, enrich_vars,
                   run_vars, client_vars>>

\* fs::write(&tmp_path, data) creates or truncates the temporary file
WriteTmpBegin(i) ==
    /\ img_pc = "stream"
    /\ task[i] = "write"
    /\ tmp_files' = (FilenameOfRow(i) :> File(i, FALSE)) @@ tmp_files
    /\ task' = [task EXCEPT ![i] = "writing"]
    /\ UNCHANGED <<img_rows, img_pc, png_files, progress, img_result,
                   cell_vars, sheet_vars, enrich_vars, run_vars, client_vars>>

Completed(files, i) ==
    [f \in DOMAIN files |-> IF files[f].by = i THEN File(i, TRUE) ELSE files[f]]

\* fs::write has written all the bytes, to the file it opened wherever that
\* file is by now
WriteTmpEnd(i) ==
    /\ task[i] \in {"writing", "dropped_writing"}
    /\ tmp_files' = Completed(tmp_files, i)
    /\ png_files' = Completed(png_files, i)
    /\ task' = [task EXCEPT ![i] = IF task[i] = "writing" THEN "rename" ELSE "dropped"]
    /\ UNCHANGED <<img_rows, img_pc, progress, img_result,
                   cell_vars, sheet_vars, enrich_vars, run_vars, client_vars>>

\* fs::rename(&tmp_path, &path): the temporary file becomes the image file,
\* or there is no temporary file any more and the task fails
Rename(i) ==
    /\ img_pc = "stream"
    /\ task[i] = "rename"
    /\ LET f == FilenameOfRow(i)
       IN IF f \in DOMAIN tmp_files
          THEN /\ png_files' = (f :> tmp_files[f]) @@ png_files
               /\ tmp_files' = Remove(tmp_files, f)
               /\ task' = [task EXCEPT ![i] = "done"]
               /\ progress' = progress + 1
               /\ UNCHANGED <<img_pc, img_result>>
          ELSE /\ TaskFails(i)
               /\ UNCHANGED <<tmp_files, png_files>>
    /\ UNCHANGED <<img_rows, cell_vars, sheet_vars, enrich_vars,
                   run_vars, client_vars>>

\* every future returned Ok(()): Ok(())
ImagesReturn ==
    /\ img_pc = "stream"
    /\ \A i \in DOMAIN task : task[i] = "done"
    /\ img_result' = Ok(<<>>)
    /\ img_pc' = "done"
    /\ UNCHANGED <<img_rows, task, tmp_files, png_files, progress,
                   cell_vars, sheet_vars, enrich_vars, run_vars, client_vars>>

NextImages ==
    \/ CheckRequiredFields
    \/ \E i \in DOMAIN task : StartTask(i)
    \/ \E i \in DOMAIN task : DownloadOk(i)
    \/ \E i \in DOMAIN task : DownloadFails(i)
    \/ \E i \in DOMAIN task : WriteTmpBegin(i)
    \/ \E i \in DOMAIN task : WriteTmpEnd(i)
    \/ \E i \in DOMAIN task : Rename(i)
    \/ ImagesReturn

SpecImages == InitImages /\ [][NextImages]_vars

(***************************************************************************)
(* SpecFanOut: download_images_to_dir of a sheet with more rows than the   *)
(* concurrency limit.  The stream and the limit are those of SpecImages;   *)
(* the future of a row is followed from its request to its return in one   *)
(* step, which leaves the number of futures in flight as it is in the      *)
(* finer steps of SpecImages.                                              *)
(***************************************************************************)
MaxFanOutRows == 12         \* most rows of the sheet

\* the file name of row k: its number
FileOfRow(k) == NatToString(k)

\* a sheet of n rows, each with an image and a file name of its own
FanOutSheet(n) == [k \in 1..n |-> ImageRow(FileOfRow(k))]

InitFanOut ==
    /\ img_rows \in { FanOutSheet(n) : n \in 0..MaxFanOutRows }
                    \cup { <<NoImageKeyRow>> }
    /\ img_pc = "start"
    /\ task = [i \in 1..Len(img_rows) |-> "pending"]
    /\ tmp_files = <<>>
    /\ png_files \in { <<>>, (FileOfRow(1) :> File(0, TRUE)) }
    /\ progress = 0
    /\ img_result = NotCalled
    /\ CellIdle
    /\ SheetIdle
    /\ EnrichIdle
    /\ RunIdle
    /\ ClientIdle

\* image.download_to(download_path) returns Ok(()): the download, fs::write
\* of the temporary file and fs::rename, then total_progress.inc(1)
DownloadTo(i) ==
    /\ img_pc = "stream"
    /\ task[i] = "download"
    /\ png_files' = (FilenameOfRow(i) :> File(i, TRUE)) @@ png_files
    /\ task' = [task EXCEPT ![i] = "done"]
    /\ progress' = progress + 1
    /\ UNCHANGED <<img_rows, img_pc, tmp_files, img_result,
                   cell_vars, sheet_vars, enrich_vars, run_vars, client_vars>>

NextFanOut ==
    \/ CheckRequiredFields
    \/ \E i \in DOMAIN task : StartTask(i)
    \/ \E i \in DOMAIN task : DownloadTo(i)
    \/ \E i \in DOMAIN task : DownloadFails(i)
    \/ ImagesReturn

SpecFanOut == InitFanOut /\ [][NextFanOut]_vars

(***************************************************************************)
(* run: the pipeline from the datamine spreadsheet to the export files     *)
(***************************************************************************)
\* char::is_ascii_alphanumeric
is_ascii_alphanumeric(c) ==
    \/ \E k \in 1..26 : UpperCase[k] = c \/ LowerCase[k] = c
    \/ \E k \in 1..10 : Digits[k] = c

RECURSIVE normalize_filename_fragment(_)
\* ' ' becomes '_', every other character that is not alphanumeric, '_' or
\* '.' is dropped, the rest is lower-cased
normalize_filename_fragment(name) ==
    IF name = <<>> THEN <<>>
    ELSE LET c == Head(name)
             rest == normalize_filename_fragment(Tail(name))
         IN IF is_ascii_alphanumeric(c) THEN <<to_ascii_lowercase(c)>> \o rest
            ELSE IF c \in {"_", "."} THEN <<c>> \o rest
            ELSE IF c = " " THEN <<"_">> \o rest
            ELSE rest

\* anyhow's .context(message) on a Result: an Err is wrapped, its cause kept
Context(r, message) ==
    IF r.t = "Err" THEN [t |-> "Err", kind |-> message, source |-> r] ELSE r

RECURSIVE CollectRows(_, _, _)
\* row_data.iter().skip(1).map(..).filter(..).collect() from row i on
CollectRows(cols, row_data, i) ==
    IF i > Len(row_data) THEN Ok(<<>>)
    ELSE LET map == RowMap(cols, row_data[i])
         IN IF map.t = "Panic" THEN Panic
            ELSE LET rest == CollectRows(cols, row_data, i + 1)
                 IN IF rest.t # "Ok" THEN rest
                    ELSE IF KeepRow(map.value)
                         THEN Ok(<<map.value>> \o rest.value)
                    ELSE rest

\* Sheet::json_rows as one call
json_rows(sh) ==
    LET cols == column_titles(sh)
    IN IF cols.t # "Ok" THEN cols
       ELSE CollectRows(cols.value, sh.data[1].row_data, 2)

RECURSIVE AssignAll(_, _, _)
\* the loop `for recipe in &mut recipes.rows` from recipe i on
AssignAll(dm, recipe_rows, i) ==
    IF i > Len(recipe_rows) THEN Ok(recipe_rows)
    ELSE LET r == AssignFilenames(dm, recipe_rows[i])
         IN IF r.t = "Err" THEN r
            ELSE AssignAll(dm, [recipe_rows EXCEPT ![i] = r.value], i + 1)

\* Datamine::assign_filenames_to_recipes as one call: the value it returns
\* and the datamine it leaves
assign_filenames_to_recipes(dm) ==
    IF Recipes \notin DOMAIN dm
    THEN [result |-> Err("Failed to find recipes"), datamine |-> dm]
    ELSE LET rest == Remove(dm, Recipes)
             r == AssignAll(rest, dm[Recipes].rows, 1)
         IN IF r.t = "Err" THEN [result |-> r, datamine |-> rest]
            ELSE [result |-> Ok(<<>>),
                  datamine |-> (Recipes :> [dm[Recipes] EXCEPT !.rows = r.value])
                               @@ rest]

(***************************************************************************)
(* Inputs of run                                                           *)
(***************************************************************************)
MaxSheets == 3       \* most sheets of the spreadsheet

ReadMe == <<"R", "e", "a", "d", " ", "M", "e">>
Category == <<"C", "a", "t", "e", "g", "o", "r", "y">>
Filename == <<"F", "i", "l", "e", "n", "a", "m", "e">>

\* a Sheet with its properties.title
TitledSheet(title, sh) == [title |-> title, sheet |-> sh]
Grid(header, data_rows) == Sheet(<<GridData(<<RowData(header)>> \o data_rows)>>)

\* the sheets of the datamine: items, recipes whose records are complete,
\* recipes with a record that has no category cell, the Read Me sheet, a
\* sheet without grid data, one with a blank column title and one with a
\* cell to_string does not support
SheetPool ==
    { TitledSheet(Food, Grid(<<StringCell(Name), StringCell(Filename)>>,
                             <<RowData(<<StringCell(FishPie), StringCell(FishpieFile)>>)>>)),
      TitledSheet(Recipes, Grid(<<StringCell(Name), StringCell(Category)>>,
                                <<RowData(<<StringCell(FishPie), StringCell(Food)>>)>>)),
      TitledSheet(Recipes, Grid(<<StringCell(Name), StringCell(Category)>>,
                                <<RowData(<<StringCell(FishPie)>>)>>)),
      TitledSheet(ReadMe, Grid(<<StringCell(Name)>>, <<>>)),
      TitledSheet(Fish, Sheet(<<>>)),
      TitledSheet(Tools, Grid(<<EmptyCell>>, <<>>)),
      TitledSheet(Fish, Grid(<<StringCell(Name)>>, <<RowData(<<BoolCell>>)>>)) }

Spreadsheets == SeqsUpTo(SheetPool, MaxSheets)

\* the titles of the model in the order of BTreeMap<String, _>
TitleOrder == <<Fish, Food, ReadMe, Recipes, Tools>>

\* the keys of the datamine as `for (title, sheet) in &**self` visits them
ExportOrder(dm) == SelectSeq(TitleOrder, LAMBDA t : t \in DOMAIN dm)

\* an error a call of run returned: the step of run and the error
RunError(stage, r) == [stage |-> stage, error |-> r]

(***************************************************************************)
(* SpecRun: run, one step per call it makes and per sheet of the two loops *)
(***************************************************************************)
InitRun ==
    /\ spreadsheet \in Spreadsheets
    /\ with_images \in BOOLEAN
    /\ run_pc = "get_datamine"
    /\ sheet_idx = 0
    /\ run_datamine = <<>>
    /\ export_idx = 0
    /\ export_files = {}
    /\ run_errors = <<>>
    /\ run_result = NotCalled
    /\ CellIdle
    /\ SheetIdle
    /\ EnrichIdle
    /\ ImagesIdle
    /\ ClientIdle

\* the ? of run: the error, under its context, is what run returns
RunFails(stage, r, message) ==
    /\ run_errors' = Append(run_errors, RunError(stage, r))
    /\ run_result' = Context(r, message)
    /\ run_pc' = "done"

\* client.get(DATAMINE_SHEET_ID, ..) returns the spreadsheet
GetDatamineOk ==
    /\ run_pc = "get_datamine"
    /\ run_pc' = "transform"
    /\ sheet_idx' = 1
    /\ UNCHANGED <<spreadsheet, with_images, run_datamine, export_idx,
                   export_files, run_errors, run_result,
                   cell_vars, sheet_vars, enrich_vars, img_vars, client_vars>>

\* client.get(DATAMINE_SHEET_ID, ..) returns an error
GetDatamineFails ==
    /\ run_pc = "get_datamine"
    /\ RunFails("get", Err("Failed to get spreadsheet"), "Failed to get datamine")
    /\ UNCHANGED <<spreadsheet, with_images, sheet_idx, run_datamine, export_idx,
                   export_files,
                   cell_vars, sheet_vars, enrich_vars, img_vars, client_vars>>

\* one item of spreadsheet.sheets().map(..).collect::<Result<BTreeMap>>():
\* the sheet's records enter the map, or the first Err ends the collect, or
\* a cell panics
ExtractSheet ==
    /\ run_pc = "transform"
    /\ sheet_idx <= Len(spreadsheet)
    /\ LET s == spreadsheet[sheet_idx]
           r == json_rows(s.sheet)
       IN IF r.t = "Ok"
          THEN /\ run_datamine' = Insert(run_datamine, s.title,
                                         JsonSheet(s.title, r.value))
               /\ sheet_idx' = sheet_idx + 1
               /\ UNCHANGED <<run_pc, run_errors, run_result>>
          ELSE IF r.t = "Err"
          THEN /\ RunFails("extract",
                           Context(r, "Failed to convert datasheet to json rows"),
                           "Failed to convert datamine to json sheets")
               /\ UNCHANGED <<run_datamine, sheet_idx>>
          ELSE /\ run_result' = Panic
               /\ run_pc' = "done"
               /\ UNCHANGED <<run_datamine, sheet_idx, run_errors>>
    /\ UNCHANGED <<spreadsheet, with_images, export_idx, export_files,
                   cell_vars, sheet_vars, enrich_vars, img_vars, client_vars>>

\* the collect returns Ok(map): let mut datamine = ..
TransformDone ==
    /\ run_pc = "transform"
    /\ sheet_idx > Len(spreadsheet)
    /\ run_pc' = "get_translations"
    /\ UNCHANGED <<spreadsheet, with_images, sheet_idx, run_datamine, export_idx,
                   export_files, run_errors, run_result,
                   cell_vars, sheet_vars, enrich_vars, img_vars, client_vars>>

\* client.get(TRANSLATIONS_SHEET_ID, ..) returns the spreadsheet
GetTranslationsOk ==
    /\ run_pc = "get_translations"
    /\ run_pc' = "assign"
    /\ UNCHANGED <<spreadsheet, with_images, sheet_idx, run_datamine, export_idx,
                   export_files, run_errors, run_result,
                   cell_vars, sheet_vars, enrich_vars, img_vars, client_vars>>

\* client.get(TRANSLATIONS_SHEET_ID, ..) returns an error
GetTranslationsFails ==
    /\ run_pc = "get_translations"
    /\ RunFails("get", Err("Failed to get spreadsheet"), "Failed to get translations")
    /\ UNCHANGED <<spreadsheet, with_images, sheet_idx, run_datamine, export_idx,
                   export_files,
                   cell_vars, sheet_vars, enrich_vars, img_vars, client_vars>>

\* a faulty variant of AssignFilenamesToRecipes: the error of the enrichment is
\* dropped and the export goes on
AssignFilenamesToRecipes_unchecked ==
    /\ run_pc = "assign"
    /\ run_datamine' = assign_filenames_to_recipes(run_datamine).datamine
    /\ run_pc' = "create_dir"
    /\ UNCHANGED <<spreadsheet, with_images, sheet_idx, export_idx, export_files,
                   run_errors, run_result,
                   cell_vars, sheet_vars, enrich_vars, img_vars, client_vars>>

\* datamine.assign_filenames_to_recipes().context(..)?
AssignFilenamesToRecipes ==
    /\ run_pc = "assign"
    /\ LET r == assign_filenames_to_recipes(run_datamine)
       IN /\ run_datamine' = r.datamine
          /\ IF r.result.t = "Ok"
             THEN /\ run_pc' = "create_dir"
                  /\ UNCHANGED <<run_errors, run_result>>
             ELSE RunFails("enrich", r.result,
                           "Failed to assign filenames to recipes")
    /\ UNCHANGED <<spreadsheet, with_images, sheet_idx, export_idx, export_files,
                   cell_vars, sheet_vars, enrich_vars, img_vars, client_vars>>

\* fs::create_dir_all(EXPORT_DIR) succeeds; datamine.export(..) begins
CreateExportDirOk ==
    /\ run_pc = "create_dir"
    /\ run_pc' = "export"
    /\ export_idx' = 1
    /\ UNCHANGED <<spreadsheet, with_images, sheet_idx, run_datamine,
                   export_files, run_errors, run_result,
                   cell_vars, sheet_vars, enrich_vars, img_vars, client_vars>>

\* fs::create_dir_all(EXPORT_DIR) fails
CreateExportDirFails ==
    /\ run_pc = "create_dir"
    /\ RunFails("create_dir", Err("io"), "Failed to create export directory")
    /\ UNCHANGED <<spreadsheet, with_images, sheet_idx, run_datamine, export_idx,
                   export_files,
                   cell_vars, sheet_vars, enrich_vars, img_vars, client_vars>>

\* the title the loop of export is at
ExportTitle == ExportOrder(run_datamine)[export_idx]

\* the file export_to_dir writes for a sheet
ExportFile(title) ==
    normalize_filename_fragment(title) \o <<".", "j", "s", "o", "n">>

ExportAt ==
    /\ run_pc = "export"
    /\ export_idx <= Len(ExportOrder(run_datamine))

\* if title == "Read Me" { total_progress.inc(1); continue; }
ExportSkipsReadMe ==
    /\ ExportAt
    /\ ExportTitle = ReadMe
    /\ export_idx' = export_idx + 1
    /\ UNCHANGED <<spreadsheet, with_images, run_pc, sheet_idx, run_datamine,
                   export_files, run_errors, run_result,
                   cell_vars, sheet_vars, enrich_vars, img_vars, client_vars>>

\* sheet.export_to_dir(EXPORT_DIR) writes the file and, with images, the
\* download of the sheet's images returns Ok(())
ExportSheetOk ==
    /\ ExportAt
    /\ ExportTitle # ReadMe
    /\ export_files' = export_files \cup {ExportFile(ExportTitle)}
    /\ export_idx' = export_idx + 1
    /\ UNCHANGED <<spreadsheet, with_images, run_pc, sheet_idx, run_datamine,
                   run_errors, run_result,
                   cell_vars, sheet_vars, enrich_vars, img_vars, client_vars>>

\* sheet.export_to_dir(EXPORT_DIR) fails: safe_write leaves no file of the
\* final name
ExportSheetFails ==
    /\ ExportAt
    /\ ExportTitle # ReadMe
    /\ RunFails("export", Context(Err("io"), "Failed to export sheet"),
                "Failed to export datamine")
    /\ UNCHANGED <<spreadsheet, with_images, sheet_idx, run_datamine, export_idx,
                   export_files,
                   cell_vars, sheet_vars, enrich_vars, img_vars, client_vars>>

\* the file of the sheet is written, then download_images_to_dir fails
ExportImagesFail ==
    /\ ExportAt
    /\ ExportTitle # ReadMe
    /\ with_images
    /\ export_files' = export_files \cup {ExportFile(ExportTitle)}
    /\ RunFails("images",
                Context(Err("Failed to download image"),
                        "Failed to download images for sheet"),
                "Failed to export datamine")
    /\ UNCHANGED <<spreadsheet, with_images, sheet_idx, run_datamine, export_idx,
                   cell_vars, sheet_vars, enrich_vars, img_vars, client_vars>>

\* export returns Ok(()), total_progress.finish_and_clear(), Ok(())
RunReturns ==
    /\ run_pc = "export"
    /\ export_idx > Len(ExportOrder(run_datamine))
    /\ run_result' = Ok(<<>>)
    /\ run_pc' = "done"
    /\ UNCHANGED <<spreadsheet, with_images, sheet_idx, run_datamine, export_idx,
                   export_files, run_errors,
                   cell_vars, sheet_vars, enrich_vars, img_vars, client_vars>>

NextRun ==
    \/ GetDatamineOk \/ GetDatamineFails
    \/ ExtractSheet \/ TransformDone
    \/ GetTranslationsOk \/ GetTranslationsFails
    \/ AssignFilenamesToRecipes
    \/ CreateExportDirOk \/ CreateExportDirFails
    \/ ExportSkipsReadMe \/ ExportSheetOk \/ ExportSheetFails \/ ExportImagesFail
    \/ RunReturns

SpecRun == InitRun /\ [][NextRun]_vars

(***************************************************************************)
(* Client::get_raw: the spreadsheet download and its cache file            *)
(***************************************************************************)
MaxCalls == 3        \* most calls of get_raw

\* the bodies the API can answer with for the spreadsheet id
Bodies == { <<1, 2>>, <<3>> }

\* the calls of get_raw made so far, the one that runs included
Calls == Len(returned) + (IF client_pc = "idle" THEN 0 ELSE 1)

\* get_raw returns r to its single caller
Return(r) ==
    /\ returned' = Append(returned, r)
    /\ client_pc' = "idle"

(***************************************************************************)
(* SpecClient: get_raw called again and again for one spreadsheet id       *)
(***************************************************************************)
\* the cache file is not there, or it is there from an earlier process
InitClient ==
    /\ cache_file \in { None, Some(<<3>>) }
    /\ client_pc = "idle"
    /\ fetch_data = <<>>
    /\ requests = 0
    /\ fetched = <<>>
    /\ returned = <<>>
    /\ CellIdle
    /\ SheetIdle
    /\ EnrichIdle
    /\ ImagesIdle
    /\ RunIdle

\* prepare_cache_path fails: fs::create_dir_all returned an error
PrepareCachePathFails ==
    /\ client_pc = "idle"
    /\ Calls < MaxCalls
    /\ Return(Err("Failed to get cache path"))
    /\ UNCHANGED <<cache_file, fetch_data, requests, fetched,
                   cell_vars, sheet_vars, enrich_vars, img_vars, run_vars>>

\* path.exists(): fs::read(path) returns the bytes of the file
ReadCache ==
    /\ client_pc = "idle"
    /\ Calls < MaxCalls
    /\ cache_file # None
    /\ Return(Ok(cache_file.value))
    /\ UNCHANGED <<cache_file, fetch_data, requests, fetched,
                   cell_vars, sheet_vars, enrich_vars, img_vars, run_vars>>

\* path.exists(): fs::read(path) fails
ReadCacheFails ==
    /\ client_pc = "idle"
    /\ Calls < MaxCalls
    /\ cache_file # None
    /\ Return(Err("Failed reading cached spreadsheet"))
    /\ UNCHANGED <<cache_file, fetch_data, requests, fetched,
                   cell_vars, sheet_vars, enrich_vars, img_vars, run_vars>>

\* !path.exists(): get_raw_uncached sends the request
SendRequest ==
    /\ client_pc = "idle"
    /\ Calls < MaxCalls
    /\ cache_file = None
    /\ requests' = requests + 1
    /\ client_pc' = "fetching"
    /\ UNCHANGED <<cache_file, fetch_data, fetched, returned,
                   cell_vars, sheet_vars, enrich_vars, img_vars, run_vars>>

\* the request, the status or a chunk fails: get_raw returns the error
FetchFails ==
    /\ client_pc = "fetching"
    /\ Return(Err("failed downloading spreadsheet"))
    /\ UNCHANGED <<cache_file, fetch_data, requests, fetched,
                   cell_vars, sheet_vars, enrich_vars, img_vars, run_vars>>

\* get_raw_uncached returns Ok(data)
FetchOk ==
    /\ client_pc = "fetching"
    /\ \E body \in Bodies :
          /\ fetch_data' = body
          /\ fetched' = Append(fetched, body)
    /\ client_pc' = "write"
    /\ UNCHANGED <<cache_file, requests, returned,
                   cell_vars, sheet_vars, enrich_vars, img_vars, run_vars>>

\* fs::write(path, &data) succeeds; Ok(data)
WriteCacheOk ==
    /\ client_pc = "write"
    /\ cache_file' = Some(fetch_data)
    /\ Return(Ok(fetch_data))
    /\ UNCHANGED <<fetch_data, requests, fetched,
                   cell_vars, sheet_vars, enrich_vars, img_vars, run_vars>>

\* fs::write(path, &data) fails: the file could not be created, or it was
\* created and the write stopped before the last byte
WriteCacheFails ==
    /\ client_pc = "write"
    /\ \/ cache_file' = cache_file
       \/ \E n \in 0..(Len(fetch_data) - 1) :
             cache_file' = Some(SubSeq(fetch_data, 1, n))
    /\ Return(Err("Failed writing spreadsheet to cache"))
    /\ UNCHANGED <<fetch_data, requests, fetched,
                   cell_vars, sheet_vars, enrich_vars, img_vars, run_vars>>

NextClient ==
    \/ PrepareCachePathFails
    \/ ReadCache \/ ReadCacheFails
    \/ SendRequest \/ FetchFails \/ FetchOk
    \/ WriteCacheOk \/ WriteCacheFails

SpecClient == InitClient /\ [][NextClient]_vars

(***************************************************************************)
(* Claims about the cell resolver (checked under SpecCell)                 *)
(***************************************************************************)
Called == cell_result # NotCalled

DigitValue(c) == (CHOOSE k \in 1..10 : Digits[k] = c) - 1
IsDigit(c) == \E k \in 1..10 : Digits[k] = c

RECURSIVE DigitsValue(_)
DigitsValue(s) ==
    IF s = <<>> THEN 0
    ELSE 10 * DigitsValue(SubSeq(s, 1, Len(s) - 1)) + DigitValue(s[Len(s)])

\* s is an optional minus sign, one or more digits, and optionally a point
\* followed by one digit
IsDecimal(s) ==
    LET body == IF s # <<>> /\ s[1] = "-" THEN Tail(s) ELSE s
        dots == { i \in 1..Len(body) : body[i] = "." }
    IN /\ body # <<>>
       /\ \A i \in 1..Len(body) : IsDigit(body[i]) \/ body[i] = "."
       /\ \/ dots = {}
          \/ dots = {Len(body) - 1} /\ Len(body) >= 3

\* the number of tenths the decimal string s denotes
DecimalTenths(s) ==
    LET neg == s[1] = "-"
        body == IF neg THEN Tail(s) ELSE s
        hasdot == \E i \in 1..Len(body) : body[i] = "."
        int == IF hasdot THEN SubSeq(body, 1, Len(body) - 2) ELSE body
        frac == IF hasdot THEN DigitValue(body[Len(body)]) ELSE 0
        a == 10 * DigitsValue(int) + frac
    IN IF neg THEN -a ELSE a

\* C1: when the effective (computed) value of a cell is a String s the
\* result is Some(s), and when it is a Number n the result is Some of a
\* decimal string that denotes n, whatever the user-entered slot holds.
C1_ComputedValueWins ==
    Called =>
       /\ cell.effective_value.t = "String"
             => cell_result = Some(cell.effective_value.string_value)
       /\ cell.effective_value.t = "Number"
             => /\ cell_result.t = "Some"
                /\ IsDecimal(cell_result.value)
                /\ DecimalTenths(cell_result.value) = cell.effective_value.number_value
                /\ cell_result = Some(f64_to_string(cell.effective_value.number_value))

\* a fractional negative number was resolved although the user-entered slot
\* holds a formula the image pattern matches
C1_Witness ==
    /\ Called
    /\ cell.effective_value = NumberValue(-15)
    /\ cell.user_entered_value.t = "Formula"
    /\ cell.user_entered_value.formula_value \in ImageFormulas
    /\ cell_result = Some(<<"-", "1", ".", "5">>)

\* C2: when the effective value is absent or Empty and the user-entered
\* value is the formula =IMAGE("<url>"), the keyword in any letter case,
\* the result is Some(<url>): an Empty effective value is no error.
C2_ImageFormulaUrl ==
    Called =>
       \A kw \in KeywordCases, u \in Urls :
          ( /\ cell.effective_value \in {Absent, EmptyValue}
            /\ cell.user_entered_value \in
                  { FormulaValue(ImageFormula(kw, u)),
                    FormulaValue(Embedded(ImageFormula(kw, u))) } )
          => cell_result = Some(u)

\* an Empty effective value over a mixed-case formula whose url holds  ")
C2_Witness ==
    /\ Called
    /\ cell.effective_value = EmptyValue
    /\ cell.user_entered_value =
          FormulaValue(ImageFormula(<<"I","m","a","G","e">>, Url2))
    /\ cell_result = Some(Url2)

\* C3: a fully empty cell (effective value absent or Empty, user-entered
\* value absent or Empty) resolves to None, without a panic.
C3_EmptyCellIsNone ==
    ( /\ Called
      /\ cell.effective_value \in {Absent, EmptyValue}
      /\ cell.user_entered_value \in {Absent, EmptyValue} )
    => cell_result = None

\* both slots present and Empty
C3_Witness ==
    /\ Called
    /\ cell.effective_value = EmptyValue
    /\ cell.user_entered_value = EmptyValue
    /\ cell_result = None

\* C4: unsupported cell content comes back to the caller as an error value:
\* a formula the image pattern does not match as UnsupportedFormula, a Bool
\* (or a Number or String present only as entered) as UnsupportedCellType;
\* the process is never aborted.
C4_UnsupportedIsErrorValue ==
    Called =>
       /\ cell_result # Panic
       /\ ( /\ cell.effective_value \in {Absent, EmptyValue}
            /\ cell.user_entered_value.t = "Formula"
            /\ cell.user_entered_value.formula_value \in OtherFormulas )
          => cell_result = Err("UnsupportedFormula")
       /\ ( \/ cell.effective_value.t = "Bool"
            \/ /\ cell.effective_value \in {Absent, EmptyValue}
               /\ cell.user_entered_value.t \in {"Bool", "Number", "String"} )
          => cell_result = Err("UnsupportedCellType")

(***************************************************************************)
(* Claims about the record builder (checked under SpecSheet)               *)
(***************************************************************************)
DataRowsOf(sh) == SubSeq(sh.data[1].row_data, 2, Len(sh.data[1].row_data))

\* the JSON value a cell contributes to a record
Resolved(c) ==
    IF to_string(c).t = "Some" THEN JsonString(to_string(c).value) ELSE Null

\* the key of the cell at position i of a data row
KeyAt(cols, i) == IF i <= Len(cols) THEN cols[i] ELSE <<>>

\* the record of a data row, stated as a mapping: under each key the value
\* of the last cell of the row that has this key
RecordOf(cols, row) ==
    [k \in { KeyAt(cols, i) : i \in 1..Len(row.values) } |->
        LET last == Max({ i \in 1..Len(row.values) : KeyAt(cols, i) = k })
        IN Resolved(row.values[last])]

\* C5: a data row with fewer cells than there are column titles yields a
\* record that has every column title as a key, and each column beyond the
\* row's length is mapped to null.
C5_ShortRowHasEveryColumn ==
    [][ (sheet_pc = "rows" /\ Len(rows') = Len(rows) + 1) =>
          LET row == sheet.data[1].row_data[row_idx].values
              rec == rows'[Len(rows')]
          IN Len(row) < Len(columns) =>
                /\ \A i \in 1..Len(columns) : columns[i] \in DOMAIN rec
                /\ \A i \in (Len(row) + 1)..Len(columns) : rec[columns[i]] = Null
      ]_vars

RECURSIVE SelectRecords(_, _, _, _)
\* the records of the rows rs[i..] that Keep(row, record) selects, in order
SelectRecords(Keep(_, _), cols, rs, i) ==
    IF i > Len(rs) THEN <<>>
    ELSE (IF Keep(rs[i], RecordOf(cols, rs[i]))
          THEN <<RecordOf(cols, rs[i])>> ELSE <<>>)
         \o SelectRecords(Keep, cols, rs, i + 1)

RowHasValue(row, rec) == \E i \in 1..Len(row.values) : Resolved(row.values[i]) # Null
RecordHasValue(row, rec) == \E k \in DOMAIN rec : rec[k] # Null

\* C6 as stated: the rows returned are exactly the records of the data rows
\* that have at least one cell resolving to a non-null value, in row order.
C6_KeepsRowsWithAValue ==
    json_result.t = "Ok" =>
       json_result.value =
          SelectRecords(RowHasValue, column_titles(sheet).value, DataRowsOf(sheet), 1)

\* C6 as amended: the rows returned are exactly the records of the data rows
\* (never the header row) whose record has at least one non-null value, in
\* row order; a row whose record is all null, a row of zero cells included,
\* is dropped; and a second run on the same sheet returns what the first did.
C6_KeepsRecordsWithAValue ==
    /\ json_result.t = "Ok" =>
          json_result.value =
             SelectRecords(RecordHasValue, column_titles(sheet).value,
                           DataRowsOf(sheet), 1)
    /\ (first_result.t # "NotCalled" /\ json_result.t # "NotCalled")
          => json_result = first_result

\* two runs are over; of two data rows the first, of zero cells, was dropped
\* and the second was kept
C6_Witness ==
    /\ first_result.t = "Ok"
    /\ json_result.t = "Ok"
    /\ Len(DataRowsOf(sheet)) = 2
    /\ DataRowsOf(sheet)[1].values = <<>>
    /\ Len(json_result.value) = 1
    /\ json_result.value[1] = RecordOf(column_titles(sheet).value, DataRowsOf(sheet)[2])

\* the record of the cells of a row that stand under a column title
RecordOfColumns(cols, row) ==
    RowMap(cols, RowData(SubSeq(row, 1, Len(cols)))).value

\* C13 as stated: when a data row has more cells than there are column
\* titles, the record has the empty-string key, it holds the resolved value
\* of the last extra cell, and the values under the column titles are what
\* they are without the extra cells.
C13_ExtraCellsLeaveColumnsAlone ==
    [][ (sheet_pc = "rows" /\ Len(rows') = Len(rows) + 1) =>
          LET row == sheet.data[1].row_data[row_idx].values
              rec == rows'[Len(rows')]
          IN Len(row) > Len(columns) =>
                /\ <<>> \in DOMAIN rec
                /\ rec[<<>>] = Resolved(row[Len(row)])
                /\ \A i \in 1..Len(columns) :
                      rec[columns[i]] = RecordOfColumns(columns, row)[columns[i]]
      ]_vars

\* C13 as amended: when a data row has more cells than there are column
\* titles, the record has the empty-string key and no key besides it and the
\* column titles, it holds the resolved value of the last extra cell, and
\* the values under the column titles other than an empty-string title are
\* what they are without the extra cells.
C13_ExtraCellsUnderEmptyKey ==
    [][ (sheet_pc = "rows" /\ Len(rows') = Len(rows) + 1) =>
          LET row == sheet.data[1].row_data[row_idx].values
              rec == rows'[Len(rows')]
          IN Len(row) > Len(columns) =>
                /\ DOMAIN rec = { columns[i] : i \in 1..Len(columns) } \cup { <<>> }
                /\ rec[<<>>] = Resolved(row[Len(row)])
                /\ \A i \in 1..Len(columns) :
                      columns[i] # <<>> =>
                         rec[columns[i]] = RecordOfColumns(columns, row)[columns[i]]
      ]_vars

\* a kept record of a row of two extra cells, the first without a value: the
\* empty-string key holds the value of the second
C13_Witness ==
    /\ sheet_pc = "rows"
    /\ columns = <<>>
    /\ Len(rows) = 1
    /\ row_idx = 3
    /\ sheet.data[1].row_data[2].values = <<EmptyCell, NumberCell(30)>>
    /\ rows[1] = (<<>> :> JsonString(<<"3">>))

(***************************************************************************)
(* Claims about the enrichment (checked under SpecEnrich)                  *)
(***************************************************************************)
RecipesBefore == before[Recipes].rows
RecipesAfter == datamine[Recipes].rows
CategoryOf(recipe) == recipe[CategoryKey].value
NameOf(recipe) == recipe[NameKey].value

\* the filename values of the rows of `items` whose name is `name`, in the
\* order of `items`, as a JSON array
FilenamesOf(items, name) ==
    LET matching == SelectSeq(items, LAMBDA item : item[NameKey] = JsonString(name))
    IN JsonArray([j \in 1..Len(matching) |-> matching[j][FilenameKey]])

\* C7 as stated: after a successful run every recipe whose category names a
\* sheet S of the datamine carries under `filenames` the filenames of the
\* rows of S that have the recipe's name, in the order of S.
C7_FilenamesOfExistingSheet ==
    enrich_result.t = "Ok" =>
       \A i \in 1..Len(RecipesBefore) :
          CategoryOf(RecipesBefore[i]) \in DOMAIN before =>
             /\ FilenamesKey \in DOMAIN RecipesAfter[i]
             /\ RecipesAfter[i][FilenamesKey] =
                   FilenamesOf(before[CategoryOf(RecipesBefore[i])].rows,
                               NameOf(RecipesBefore[i]))

\* C7 as amended: the same for every recipe whose category names a sheet S
\* of the datamine other than the Recipes sheet itself; duplicates are kept
\* and the list is empty when no row of S has the recipe's name.
C7_FilenamesOfOtherSheet ==
    enrich_result.t = "Ok" =>
       \A i \in 1..Len(RecipesBefore) :
          CategoryOf(RecipesBefore[i]) \in DOMAIN before \ {Recipes} =>
             /\ FilenamesKey \in DOMAIN RecipesAfter[i]
             /\ RecipesAfter[i][FilenamesKey] =
                   FilenamesOf(before[CategoryOf(RecipesBefore[i])].rows,
                               NameOf(RecipesBefore[i]))

\* the recipe Fish Pie of category Food, Food holding two rows named Fish
\* Pie, ends with filenames [fishpie, fishpie_alt]
C7_Witness ==
    /\ enrich_result.t = "Ok"
    /\ RecipesBefore = <<Recipe(FishPie, Food)>>
    /\ Food \in DOMAIN before
    /\ before[Food].rows = <<Item(FishPie, FishpieFile), Item(FishPie, FishpieAltFile)>>
    /\ RecipesAfter[1][FilenamesKey] =
          JsonArray(<<JsonString(FishpieFile), JsonString(FishpieAltFile)>>)

\* the category of the recipe is a string that names no sheet of the datamine
Dangling(recipe) ==
    /\ CategoryKey \in DOMAIN recipe
    /\ recipe[CategoryKey].t = "String"
    /\ CategoryOf(recipe) \notin DOMAIN before

\* C8: a recipe whose category names no sheet of the datamine raises no
\* error: the loop goes on to the next recipe and leaves this one as it
\* was, without a filenames key; after a successful run the recipes before
\* and after it that name another sheet carry their filenames.
C8_DanglingCategorySkipped ==
    /\ [][ ( /\ enrich_pc = "loop"
             /\ recipe_idx <= Len(recipes.rows)
             /\ Dangling(recipes.rows[recipe_idx])
             /\ NameKey \in DOMAIN recipes.rows[recipe_idx]
             /\ recipes.rows[recipe_idx][NameKey].t = "String" )
           => /\ enrich_result' = NotCalled
              /\ enrich_pc' = "loop"
              /\ recipe_idx' = recipe_idx + 1
              /\ recipes' = recipes ]_vars
    /\ [](enrich_result.t = "Ok" =>
            \A i \in 1..Len(RecipesBefore) :
               IF Dangling(RecipesBefore[i])
               THEN /\ RecipesAfter[i] = RecipesBefore[i]
                    /\ FilenamesKey \notin DOMAIN RecipesBefore[i]
                          => FilenamesKey \notin DOMAIN RecipesAfter[i]
               ELSE CategoryOf(RecipesBefore[i]) # Recipes =>
                       /\ FilenamesKey \in DOMAIN RecipesAfter[i]
                       /\ RecipesAfter[i][FilenamesKey] =
                             FilenamesOf(before[CategoryOf(RecipesBefore[i])].rows,
                                         NameOf(RecipesBefore[i])))

\* a successful run over a recipe of the missing sheet Tools followed by a
\* recipe of Food: the first is as before, the second has its filenames
C8_Witness ==
    /\ enrich_result.t = "Ok"
    /\ RecipesBefore = <<Recipe(FishPie, Tools), Recipe(FishPie, Food)>>
    /\ Food \in DOMAIN before
    /\ RecipesAfter[1] = Recipe(FishPie, Tools)
    /\ FilenamesKey \notin DOMAIN RecipesAfter[1]
    /\ FilenamesKey \in DOMAIN RecipesAfter[2]

\* the frame of a run, but for the values of the recipes: after a
\* successful run the datamine has the sheet titles it had, the Recipes sheet
\* is back under its title with as many rows, each with the keys it had and
\* at most the filenames key added, and every other sheet is as it was;
\* without a Recipes sheet the run fails with "Failed to find recipes" and
\* the datamine is as it was
FrameOfSheets ==
    /\ enrich_result.t = "Ok" =>
          /\ DOMAIN datamine = DOMAIN before
          /\ datamine[Recipes].title = Recipes
          /\ Len(RecipesAfter) = Len(RecipesBefore)
          /\ \A i \in 1..Len(RecipesBefore) :
                /\ DOMAIN RecipesBefore[i] \subseteq DOMAIN RecipesAfter[i]
                /\ DOMAIN RecipesAfter[i] \subseteq
                      DOMAIN RecipesBefore[i] \cup {FilenamesKey}
          /\ \A title \in DOMAIN before \ {Recipes} : datamine[title] = before[title]
    /\ (Recipes \notin DOMAIN before /\ enrich_pc = "done") =>
          /\ enrich_result = Err("Failed to find recipes")
          /\ datamine = before
    /\ enrich_result = Err("Failed to find recipes") => Recipes \notin DOMAIN before

\* C9 as stated: the frame of a run, every recipe in its place with every
\* key it had and the value it had under it.
C9_KeepsEveryValue ==
    /\ FrameOfSheets
    /\ enrich_result.t = "Ok" =>
          \A i \in 1..Len(RecipesBefore) :
             \A k \in DOMAIN RecipesBefore[i] :
                RecipesAfter[i][k] = RecipesBefore[i][k]

\* C9 as amended: the frame of a run, every recipe in its place with every
\* key it had and, under every key but filenames, the value it had.
C9_FrameOfEnrich ==
    /\ FrameOfSheets
    /\ enrich_result.t = "Ok" =>
          \A i \in 1..Len(RecipesBefore) :
             \A k \in DOMAIN RecipesBefore[i] \ {FilenamesKey} :
                RecipesAfter[i][k] = RecipesBefore[i][k]

\* a successful run over two recipes and a Food sheet of two rows: the
\* first recipe has its two keys as before and the filenames key added
C9_Witness ==
    /\ enrich_result.t = "Ok"
    /\ Len(RecipesBefore) = 2
    /\ Food \in DOMAIN before
    /\ Len(before[Food].rows) = 2
    /\ DOMAIN RecipesAfter[1] = {NameKey, CategoryKey, FilenamesKey}
    /\ RecipesAfter[1][NameKey] = RecipesBefore[1][NameKey]

\* the errors of the loop over the recipes
RecipeErrors ==
    { Err("Failed to get category field for a recipe"),
      Err("Category is not a string"),
      Err("Failed to get name field for a recipe"),
      Err("Recipe name is not a string") }
\* the errors of the scan of the looked-up sheet
ItemErrors ==
    { Err("Failed to get name field for an item"),
      Err("Item name is not a string"),
      Err("Failed to get filename field for an item"),
      Err("Item filename is not a string") }

\* the recipe has a string category and a string name
WellFormed(recipe) ==
    /\ CategoryKey \in DOMAIN recipe /\ recipe[CategoryKey].t = "String"
    /\ NameKey \in DOMAIN recipe /\ recipe[NameKey].t = "String"

\* C16: whenever the enrichment returns an error, the datamine afterwards
\* has no sheet titled Recipes and every other sheet is as it was; with a
\* Recipes sheet the error is that of a recipe without a string category or
\* name, or that of a scanned item without a string name or a matching one
\* without a string filename; and a recipe whose category is Recipes itself
\* is skipped like a dangling reference: the step raises no error and
\* leaves the recipe as it was.
C16_FailureLeavesNoRecipes ==
    /\ [](enrich_result.t = "Err" =>
            /\ Recipes \notin DOMAIN datamine
            /\ DOMAIN datamine = DOMAIN before \ {Recipes}
            /\ \A title \in DOMAIN datamine : datamine[title] = before[title]
            /\ Recipes \in DOMAIN before =>
                  /\ enrich_result \in RecipeErrors \cup ItemErrors
                  /\ enrich_result \in RecipeErrors
                        <=> ~WellFormed(RecipesBefore[recipe_idx]))
    /\ [][ ( /\ enrich_pc = "loop"
             /\ recipe_idx <= Len(recipes.rows)
             /\ WellFormed(recipes.rows[recipe_idx])
             /\ CategoryOf(recipes.rows[recipe_idx]) = Recipes )
           => /\ enrich_result' = NotCalled
              /\ enrich_pc' = "loop"
              /\ recipe_idx' = recipe_idx + 1
              /\ recipes' = recipes ]_vars
    /\ [](enrich_result.t = "Ok" =>
            \A i \in 1..Len(RecipesBefore) :
               (WellFormed(RecipesBefore[i]) /\ CategoryOf(RecipesBefore[i]) = Recipes)
                  => RecipesAfter[i] = RecipesBefore[i])

\* the second recipe has no string category or name: the run failed on it
\* after the first was given its filenames, and the Recipes sheet is gone
\* while Fish and Food are there as before
C16_Witness ==
    /\ enrich_result \in RecipeErrors
    /\ recipe_idx = 2
    /\ Recipes \in DOMAIN before
    /\ Food \in DOMAIN before
    /\ DOMAIN datamine = {Fish, Food}
    /\ FilenamesKey \in DOMAIN recipes.rows[1]

(***************************************************************************)
(* Claims about the image export (checked under SpecImages)                *)
(***************************************************************************)
\* C10: the failed download of one row neither aborts nor cancels the tasks
\* of the other rows: when the failure is returned to the caller, the task
\* of every row has run to completion.
C10_FailureAfterAllTasksComplete ==
    img_result.t = "Err" =>
       \A i \in DOMAIN task : task[i] \in {"done", "failed"}

\* C15: in every interleaving, a file of a final name appears only by the
\* rename of a completely written temporary file, a file of a final name
\* holds the complete bytes of one download at all times, and no task fails
\* on a step other than its own download, two rows with the same file name
\* included.
C15_AtomicImageWrite ==
    /\ [](\A f \in DOMAIN png_files : png_files[f].complete)
    /\ [][ /\ \A f \in DOMAIN png_files' \ DOMAIN png_files :
                 f \in DOMAIN tmp_files /\ tmp_files[f].complete
           /\ \A i \in DOMAIN task :
                 (task'[i] = "failed" /\ task[i] # "failed")
                    => task[i] = "download" ]_vars

(***************************************************************************)
(* Claims about the fan-out (checked under SpecFanOut)                     *)
(***************************************************************************)
\* the rows whose task has started and has not finished: the futures held by
\* try_for_each_concurrent, and a write still running for a dropped future
Unfinished ==
    { i \in DOMAIN task : task[i] \in InFlightStates \cup {"dropped_writing"} }

\* the task of a row is over
Finished(i) == task[i] \in {"done", "failed", "dropped"}

\* C11: in every reachable state at most 10 row tasks have started and not
\* yet finished, and each row gets at most one task: a started task is never
\* started again and a finished one stays finished.
C11_AtMostTenInFlight ==
    /\ [](Cardinality(Unfinished) <= 10)
    /\ [][\A i \in DOMAIN task :
            /\ task[i] # "pending" => task'[i] # "pending"
            /\ Finished(i) => task'[i] = task[i]]_vars

\* the limit binds: ten tasks are in flight and a row still waits
C11_Witness ==
    /\ Cardinality(Unfinished) = 10
    /\ \E i \in DOMAIN task : task[i] = "pending"
    /\ \E i \in DOMAIN task : task[i] = "done"

(***************************************************************************)
(* Claims about the pipeline (checked under SpecRun)                       *)
(***************************************************************************)
RECURSIVE AllFromSpreadsheet(_, _, _)
\* the records of every sheet from sheet i on, added to map: Ok of the map,
\* or what the first sheet that has no records gives
AllFromSpreadsheet(ss, i, map) ==
    IF i > Len(ss) THEN Ok(map)
    ELSE LET r == json_rows(ss[i].sheet)
         IN IF r.t # "Ok" THEN r
            ELSE AllFromSpreadsheet(ss, i + 1,
                    Insert(map, ss[i].title, JsonSheet(ss[i].title, r.value)))

\* C12: the records of every sheet are extracted and the enrichment has
\* returned Ok before any sheet's JSON file is written, the files are written
\* from the enriched datamine; and when the extraction of a sheet or the
\* enrichment returns an error, it is the first error of the run, run
\* returns it and no export file is written.
C12_ExportAfterExtractAndEnrich ==
    /\ export_files # {} =>
          LET all == AllFromSpreadsheet(spreadsheet, 1, <<>>)
          IN /\ all.t = "Ok"
             /\ sheet_idx > Len(spreadsheet)
             /\ assign_filenames_to_recipes(all.value).result.t = "Ok"
             /\ run_datamine = assign_filenames_to_recipes(all.value).datamine
             /\ run_pc \in {"export", "done"}
    /\ \A k \in 1..Len(run_errors) :
          run_errors[k].stage \in {"extract", "enrich"} =>
             /\ k = 1
             /\ run_pc = "done"
             /\ run_result.t = "Err"
             /\ run_result.source = run_errors[1].error
             /\ export_files = {}

\* a run that wrote the files of two sheets, the Recipes sheet with the
\* file name the enrichment found
C12_Witness ==
    /\ run_result = Ok(<<>>)
    /\ Cardinality(export_files) = 2
    /\ ExportFile(Recipes) \in export_files
    /\ Len(spreadsheet) = 3
    /\ Recipes \in DOMAIN run_datamine
    /\ Len(run_datamine[Recipes].rows) = 1
    /\ FilenamesKey \in DOMAIN run_datamine[Recipes].rows[1]
    /\ run_datamine[Recipes].rows[1][FilenamesKey] =
          JsonArray(<<JsonString(FishpieFile)>>)

(***************************************************************************)
(* Claims about the download cache (checked under SpecClient)              *)
(***************************************************************************)
\* C14: a network request is made only when the cache file does not exist;
\* a call that returns fetched bytes has written them to the cache file; a
\* failed fetch leaves the cache file alone; hence at most one fetch ever
\* succeeds, and every call that returns bytes returns those of the first
\* successful fetch.
C14_OneFetchThenCache ==
    /\ [][ /\ requests' # requests => cache_file = None
           /\ (client_pc = "write" /\ returned' # returned
                 /\ returned'[Len(returned')].t = "Ok")
                 => cache_file' = Some(returned'[Len(returned')].value)
           /\ (client_pc = "fetching" /\ client_pc' = "idle")
                 => cache_file' = cache_file ]_vars
    /\ [](Len(fetched) <= 1)
    /\ [](\A k \in 1..Len(returned) :
             (returned[k].t = "Ok" /\ fetched # <<>>)
                => returned[k].value = fetched[1])


=============================================================================
